---- MODULE Spec2Model ----
(***************************************************************************)
(* Model of the React Query data layer of react-course-part2-starter:      *)
(*   - useAddTodo  (optimistic addTodo mutation with snapshot rollback),   *)
(*   - useTodos / usePosts (cached queries with staleTime, deduplicated    *)
(*     fetches and retries, infinite paging),                              *)
(*   - APIClient.getAll / APIClient.post and fetchPosts (the fetchers),    *)
(*   - observers, invalidation and garbage collection of the cache.        *)
(* The cache is the QueryClient created in main.tsx with default options.  *)
(* And of its global state management:                                     *)
(*   - taskReducer and counterReducer,                                     *)
(*   - useCounterStore and the components Counter and NavBar,              *)
(*   - AuthReducer and the AuthProvider.                                   *)
(* And of its routes (createBrowserRouter) with the PrivateRoutes guard.   *)
(***************************************************************************)
EXTENDS Integers, Sequences, FiniteSets, TLC

(***************************************************************************)
(* Bounds of the model                                                     *)
(***************************************************************************)
MaxMutations == 2      \* mutate() calls made on the addTodo mutation
MaxTicks == 2          \* clock advances
NumCallers == 2        \* components calling a query hook
TotalPosts == 21       \* records behind the /posts endpoint
MaxStoreCalls == 4     \* calls made on the counter store
MaxCount == 3          \* largest value of the reducer's counter
MaxTokenCalls == 2     \* calls made on one unsubscribe token
MaxTasks == 3          \* longest task list
MaxClicks == 4         \* clicks on the Load More button
MaxNavigations == 3    \* link clicks, address bar entries and Back presses

(***************************************************************************)
(* Program constants                                                       *)
(***************************************************************************)
TodosStaleTime == 100000   \* useTodos: staleTime: 100 * 1000
PostsStaleTime == 60000    \* usePosts: staleTime: 1 * 60 * 1000
QueryRetry == 3            \* queries: retry, default 3
MutationRetry == 0         \* useMutation options set no retry
PageSize == 10             \* PostList: const pageSize = 10
RetentionMs == 300000      \* cacheTime, default 5 minutes

CACHE_KEY_TODOS == "todos"
CACHE_KEY_POSTS == "posts"
Keys == {CACHE_KEY_TODOS, CACHE_KEY_POSTS}

Titles == {"X"}            \* non-empty values of the form's input field
ServerIds == {42}          \* ids the backend assigns to a saved todo
TickSteps == {1, 40000, 59999}
SweepSteps == {1, 300000}  \* clock advances around the retention period

\* the segments of a key: ["todos"] and ["posts", { pageSize: 10 }]
KeySegments(k) ==
    IF k = CACHE_KEY_TODOS THEN <<"todos">> ELSE <<"posts", "{pageSize:10}">>

\* arguments of invalidate
Prefixes == {<<"todos">>, <<"posts">>, <<"posts", "{pageSize:10}", "1">>}

Mutations == 1..MaxMutations
Callers == 1..NumCallers

\* components reading useCounterStore
Components == {"Counter", "NavBar"}

\* interface Task { id, title }
TaskIds == {1, 2}
TaskValues == [id : TaskIds, title : {"A", "B"}]
NoTask == [id |-> 0, title |-> ""]

\* TaskAction = AddTask | DeleteTask; OTHER is an action of any other type
TaskActions ==
    {[type |-> "ADD", task |-> t, taskId |-> 0] : t \in TaskValues}
    \cup {[type |-> "DELETE", task |-> NoTask, taskId |-> i] : i \in TaskIds}
    \cup {[type |-> "OTHER", task |-> NoTask, taskId |-> 0]}
NoTaskAction == [type |-> "none", task |-> NoTask, taskId |-> 0]

\* action types dispatched to counterReducer; OTHER is any other type
CounterActionTypes == {"INCREMENT", "RESET", "OTHER"}

\* LogAction = LogIn | LogOut; OTHER is an action of any other type
UserNames == {"mosh.hamedani", "john", ""}
AuthActions ==
    {[type |-> "LOGIN", user |-> u] : u \in UserNames}
    \cup {[type |-> "LOGOUT", user |-> ""], [type |-> "OTHER", user |-> ""]}
NoAuthAction == [type |-> "none", user |-> ""]

\* paths, as their segments
HomePath == <<>>
LoginPath == <<"login">>
UsersPath == <<"users">>
Paths == {HomePath, LoginPath, UsersPath, <<"users", "1">>, <<"users", "2">>,
          <<"about">>, <<"users", "1", "edit">>}

\* what useAuth() of the routes returns as user
NullUser == [id |-> 0, name |-> ""]
Mosh == [id |-> 1, name |-> "Mosh"]

(***************************************************************************)
(* Values held by a cache entry.  A JavaScript value is one of             *)
(*   undefined, an array, or the axios instance (a function object).       *)
(***************************************************************************)
Undefined == [kind |-> "undefined", items |-> <<>>]
AxiosInstance == [kind |-> "axios", items |-> <<>>]
ArrayOf(s) == [kind |-> "array", items |-> s]

\* interface Todo { id, title, userId, completed }; obj is the object identity
NewTodoObject(m, t) ==
    [obj |-> 2 * m - 1, id |-> 0, title |-> t, userId |-> 1, completed |-> FALSE]

\* res.data of the POST: a new object carrying the id generated on the server
SavedTodoObject(m, newTodo, sid) ==
    [obj |-> 2 * m, id |-> sid, title |-> newTodo.title,
     userId |-> newTodo.userId, completed |-> newTodo.completed]

NoTodo == [obj |-> 0, id |-> 0, title |-> "", userId |-> 0, completed |-> FALSE]

\* v || []   (undefined is falsy; arrays and functions are truthy)
OrEmptyArray(v) == IF v.kind = "undefined" THEN ArrayOf(<<>>) ELSE v

\* [...v] is defined for arrays only; spreading a function throws TypeError
IsIterable(v) == v.kind = "array"

\* v.map exists on arrays only; calling it on a function throws TypeError
HasMap(v) == v.kind = "array"

\* getAll performs no request, so only the posts fetcher can reject
QueryFnCanReject(k) == k = CACHE_KEY_POSTS

\* mutant: useTodos without its own staleTime, left at 10 * 1000
StaleTime_Default(k) == IF k = CACHE_KEY_TODOS THEN 10000 ELSE PostsStaleTime

\* staleTime option of the hook that owns the key
StaleTime(k) == IF k = CACHE_KEY_TODOS THEN TodosStaleTime ELSE PostsStaleTime

(***************************************************************************)
(* State                                                                   *)
(***************************************************************************)
VARIABLES
    cache,          \* query data per key (QueryClient cache)
    dataUpdatedAt,  \* time of the last write of the entry, 0 = never
    queryStatus,    \* "idle" | "loading" | "success" | "error" per key
    isInvalidated,  \* entry explicitly marked stale
    fetches,        \* in-flight fetches: records [key, id, phase]
    failureCount,   \* failed attempts of the current fetch per key
    fetcherCalls,   \* invocations of the queryFn per key
    fetchStarts,    \* fetches started per key
    fetchWrites,    \* fetch results written per key
    errorNotices,   \* error notifications delivered to observers per key
    servedFresh,    \* query calls answered from a fresh entry per key
    firstCallAt,    \* time of the first query call per key, 0 = none yet
    rejections,     \* whether the queryFn of the key has ever rejected
    nextRequestId,  \* identity given to the next fetch
    callers,        \* per component: [key, req, state, data]
    now,            \* clock, in ms
    ticks,          \* clock advances made
    muts,           \* per mutate() call: the state of that mutation
    nextMutation,   \* index of the next mutate() call
    baseline,       \* ["todos"] when the first mutation began
    observerCount,  \* active subscribers per key
    subscribed,     \* per component: its subscription is active
    tokenCalls,     \* per component: calls of its unsubscribe token
    lastSweepAt,    \* time of the last garbage collection, 0 = none yet
    invalidateCalls,\* prefixes passed to invalidate so far
    formMounted,    \* TodoForm is on the screen
    store,          \* state object of useCounterStore: [obj, counter]
    storeCalls,     \* calls of increament() and reset() made
    renders,        \* renders of each component reading the store
    shown,          \* the counter each component displays
    folded,         \* counterReducer folded over the calls made on the store
    value,          \* state of useReducer(counterReducer, 0)
    lastAction,     \* type of the last action dispatched to counterReducer
    sinceReset,     \* INCREMENT actions dispatched since the last RESET
    tasks,          \* state of useReducer(taskReducer, [])
    prevTasks,      \* the task list before the last dispatch
    lastTaskAction, \* the last action dispatched to taskReducer
    passedTasks,    \* the array passed to that call of taskReducer, after it
    serverPosts,    \* number of records the /posts endpoint holds
    pages,          \* data.pages of usePosts
    pageFetch,      \* pageParam of the page request in flight, 0 = none
    requested,      \* the pageParams requested so far
    clicks,         \* clicks on the Load More button
    history,        \* browser history: the paths visited, the last is current
    rendered,       \* elements on the screen, outermost first
    routeUser,      \* user of the object useAuth() of the routes returns
    navigations,    \* navigations made by the visitor
    user,           \* state of useReducer(AuthReducer, "") in AuthProvider
    lastAuthAction, \* the last action dispatched to AuthReducer
    authStore,      \* state of useAuthStore: [user]
    loginStatus     \* the link LoginStatus shows: "Login" or "Logout"

vars == <<cache, dataUpdatedAt, queryStatus, isInvalidated, fetches,
          failureCount, fetcherCalls, fetchStarts, fetchWrites, errorNotices,
          servedFresh, firstCallAt, rejections, nextRequestId, callers, now,
          ticks, muts, nextMutation, baseline, observerCount, subscribed,
          tokenCalls, lastSweepAt, invalidateCalls, formMounted, store, storeCalls, renders,
          shown, folded, value, lastAction, sinceReset, tasks, prevTasks,
          lastTaskAction, passedTasks, serverPosts, pages, pageFetch, requested, clicks,
          history, rendered, routeUser, navigations, user, lastAuthAction,
          authStore, loginStatus>>

queryVars == <<queryStatus, isInvalidated, fetches, failureCount, fetcherCalls,
               fetchStarts, fetchWrites, errorNotices, servedFresh,
               firstCallAt, rejections, nextRequestId, callers>>
clockVars == <<now, ticks>>
mutationVars == <<muts, nextMutation, baseline>>
observerVars == <<observerCount, subscribed, tokenCalls, lastSweepAt,
                  invalidateCalls, formMounted>>
storeVars == <<store, storeCalls, renders, shown, folded>>
counterVars == <<value, lastAction, sinceReset>>
taskVars == <<tasks, prevTasks, lastTaskAction, passedTasks>>
pagingVars == <<serverPosts, pages, pageFetch, requested, clicks>>
routeVars == <<history, rendered, routeUser, navigations>>
authVars == <<user, lastAuthAction, authStore, loginStatus>>
uiVars == <<routeVars, authVars>>
appVars == <<storeVars, counterVars, taskVars, pagingVars, uiVars>>

NoMutation ==
    [pc |-> "idle", status |-> "idle", variables |-> NoTodo,
     hasContext |-> FALSE, prvsTodos |-> <<>>, before |-> Undefined,
     posts |-> 0, failures |-> 0, onAddCalls |-> 0,
     onSuccessCalls |-> 0, onErrorCalls |-> 0, rollbacks |-> 0,
     error |-> "none", savedTodo |-> NoTodo, overlapped |-> FALSE,
     abandoned |-> FALSE, writesSeen |-> 0]

NoCaller == [key |-> "none", req |-> 0, state |-> "unmounted", data |-> Undefined]

\* fetchPosts({ pageParam = 1 }): the records _start .. _start + _limit - 1
RECURSIVE Range(_, _)
Range(lo, hi) == IF lo > hi THEN <<>> ELSE <<lo>> \o Range(lo + 1, hi)

Min(a, b) == IF a < b THEN a ELSE b

\* mutant: _start: pageParam * query.pageSize
RequestParams_FromPageParam(pageParam, pageSize) ==
    [_start |-> pageParam * pageSize, _limit |-> pageSize]

\* params: { _start: (pageParam - 1) * query.pageSize, _limit: query.pageSize }
RequestParams(pageParam, pageSize) ==
    [_start |-> (pageParam - 1) * pageSize, _limit |-> pageSize]

\* the endpoint answers with the records after the first _start ones, at
\* most _limit of them, and with [] past the end
fetchPosts(pageParam, pageSize) ==
    LET params == RequestParams(pageParam, pageSize)
    IN Range(params._start + 1, Min(params._start + params._limit, serverPosts))

\* APIClient.getAll: returns the axios instance itself, no request is made
getAll == AxiosInstance

\* what the queryFn of a key resolves to
QueryFnResult(k) ==
    IF k = CACHE_KEY_TODOS THEN getAll
    ELSE ArrayOf(<<fetchPosts(1, PageSize)>>)

\* new QueryClient(): an empty cache, no mutation, no fetch
AppStart ==
    /\ cache = [k \in Keys |-> Undefined]
    /\ dataUpdatedAt = [k \in Keys |-> 0]
    /\ queryStatus = [k \in Keys |-> "idle"]
    /\ isInvalidated = [k \in Keys |-> FALSE]
    /\ fetches = {}
    /\ failureCount = [k \in Keys |-> 0]
    /\ fetcherCalls = [k \in Keys |-> 0]
    /\ fetchStarts = [k \in Keys |-> 0]
    /\ fetchWrites = [k \in Keys |-> 0]
    /\ errorNotices = [k \in Keys |-> 0]
    /\ servedFresh = [k \in Keys |-> 0]
    /\ firstCallAt = [k \in Keys |-> 0]
    /\ rejections = [k \in Keys |-> FALSE]
    /\ nextRequestId = 1
    /\ callers = [c \in Callers |-> NoCaller]
    /\ now = 1
    /\ ticks = 0
    /\ muts = [m \in Mutations |-> NoMutation]
    /\ nextMutation = 1
    /\ baseline = [value |-> Undefined, fetchWrites |-> 0]
    /\ observerCount = [k \in Keys |-> 0]
    /\ subscribed = [c \in Callers |-> FALSE]
    /\ tokenCalls = [c \in Callers |-> 0]
    /\ lastSweepAt = 0
    /\ invalidateCalls = {}
    /\ formMounted = TRUE
    /\ store = [obj |-> 0, counter |-> 0]
    /\ storeCalls = 0
    /\ renders = [c \in Components |-> 1]
    /\ shown = [c \in Components |-> 0]
    /\ folded = 0
    /\ value = 0
    /\ lastAction = "none"
    /\ sinceReset = 0
    /\ tasks = <<>>
    /\ prevTasks = <<>>
    /\ lastTaskAction = NoTaskAction
    /\ passedTasks = <<>>
    /\ pages = <<>>
    /\ pageFetch = 0
    /\ requested = <<>>
    /\ clicks = 0
    /\ history = <<HomePath>>
    /\ rendered = <<"Layout", "HomePage">>
    /\ navigations = 0
    /\ user = ""
    /\ lastAuthAction = NoAuthAction
    /\ authStore = [user |-> ""]
    /\ loginStatus = "Login"

Init == AppStart /\ serverPosts = TotalPosts /\ routeUser = NullUser

\* the endpoint may hold any number of records
PagingInit == AppStart /\ serverPosts \in 0..TotalPosts /\ routeUser = NullUser

\* useAuth.ts of the routes is given in two versions: user: null and
\* user: { id: 1, name: 'Mosh' }
RouterInit == AppStart /\ serverPosts = TotalPosts /\ routeUser \in {NullUser, Mosh}

(***************************************************************************)
(* QueryClient.setQueryData / getQueryData                                 *)
(***************************************************************************)
getQueryData(k) == cache[k]

\* setQueryData(key, data): an undefined result of the updater writes nothing
SetQueryData(k, data) ==
    IF data.kind = "undefined"
    THEN UNCHANGED <<cache, dataUpdatedAt, queryStatus, isInvalidated>>
    ELSE /\ cache' = [cache EXCEPT ![k] = data]
         /\ dataUpdatedAt' = [dataUpdatedAt EXCEPT ![k] = now]
         /\ queryStatus' = [queryStatus EXCEPT ![k] = "success"]
         /\ isInvalidated' = [isInvalidated EXCEPT ![k] = FALSE]

entryVars == <<cache, dataUpdatedAt, queryStatus, isInvalidated>>
fetchVars == <<fetches, failureCount, fetcherCalls, fetchStarts, fetchWrites,
               errorNotices, servedFresh, firstCallAt, rejections,
               nextRequestId, callers>>

(***************************************************************************)
(* useAddTodo                                                              *)
(***************************************************************************)
\* a mutation between its mutate() call and the delivery of its result
IsOpen(mu) == mu.pc \notin {"idle", "done"}

\* mutant: retry the failed write once
ShouldRetryMutation_Once(failures) == failures < 1

\* a failed mutationFn is called again while failures < retry
ShouldRetryMutation(failures) == failures < MutationRetry

\* updater of onMutate: (todos) => [newTodo, ...(todos || [])]
PrependTodo(newTodo, todos) == ArrayOf(<<newTodo>> \o OrEmptyArray(todos).items)

\* updater of onSuccess:
\*   (todos) => todos?.map((todo) => (todo === newTodo ? savedTodo : todo))
ReplaceTodo(savedTodo, newTodo, todos) ==
    IF todos.kind = "undefined" THEN Undefined
    ELSE ArrayOf([i \in 1..Len(todos.items) |->
                    IF todos.items[i].obj = newTodo.obj THEN savedTodo
                    ELSE todos.items[i]])

\* TodoForm.onSubmit: addTodo.mutate({id: 0, title, userId: 1, completed: false})
Mutate(t) ==
    /\ formMounted
    /\ nextMutation <= MaxMutations
    /\ LET m == nextMutation
           busy == \E o \in Mutations : IsOpen(muts[o])
       IN /\ muts' = [o \in Mutations |->
                        IF o = m
                        THEN [muts[o] EXCEPT !.pc = "onMutate", !.status = "loading",
                                             !.variables = NewTodoObject(m, t),
                                             !.overlapped = busy]
                        ELSE IF IsOpen(muts[o])
                             THEN [muts[o] EXCEPT !.overlapped = TRUE]
                             ELSE muts[o]]
          /\ baseline' = IF m = 1
                         THEN [value |-> cache[CACHE_KEY_TODOS],
                               fetchWrites |-> fetchWrites[CACHE_KEY_TODOS]]
                         ELSE baseline
    /\ nextMutation' = nextMutation + 1
    /\ UNCHANGED <<entryVars, fetchVars, clockVars>>
    /\ UNCHANGED <<observerVars, appVars>>

\* onMutate: snapshot, speculative write, onAdd(), return { prvsTodos }
OnMutate(m) ==
    /\ muts[m].pc = "onMutate"
    /\ LET todos == getQueryData(CACHE_KEY_TODOS)
           prvsTodos == OrEmptyArray(todos)
           newTodo == muts[m].variables
       IN IF IsIterable(OrEmptyArray(todos))
          THEN /\ SetQueryData(CACHE_KEY_TODOS, PrependTodo(newTodo, todos))
               /\ muts' = [muts EXCEPT ![m] =
                             [@ EXCEPT !.pc = "dispatch", !.hasContext = TRUE,
                                       !.prvsTodos = prvsTodos.items,
                                       !.before = todos,
                                       !.writesSeen = fetchWrites[CACHE_KEY_TODOS],
                                       !.onAddCalls = @ + 1]]
          ELSE \* the spread throws: no write, no context, the mutation fails
               /\ muts' = [muts EXCEPT ![m] =
                             [@ EXCEPT !.pc = "onError", !.error = "TypeError",
                                       !.before = todos]]
               /\ UNCHANGED entryVars
    /\ UNCHANGED <<fetchVars, clockVars, nextMutation, baseline>>
    /\ UNCHANGED <<observerVars, appVars>>

\* onMutate with an onAdd callback that throws: the snapshot and the
\* speculative write are made, onAdd() throws before `return { prvsTodos }`, so
\* the mutation fails with no context and the mutationFn is not called
OnMutateThrows(m) ==
    /\ muts[m].pc = "onMutate"
    /\ LET todos == getQueryData(CACHE_KEY_TODOS)
           newTodo == muts[m].variables
       IN /\ IsIterable(OrEmptyArray(todos))
          /\ SetQueryData(CACHE_KEY_TODOS, PrependTodo(newTodo, todos))
          /\ muts' = [muts EXCEPT ![m] =
                        [@ EXCEPT !.pc = "onError", !.error = "OnAddError",
                                  !.before = todos,
                                  !.writesSeen = fetchWrites[CACHE_KEY_TODOS],
                                  !.onAddCalls = @ + 1]]
    /\ UNCHANGED <<fetchVars, clockVars, nextMutation, baseline>>
    /\ UNCHANGED <<observerVars, appVars>>

\* mutationFn: todoService.post(newTodo), called once onMutate has returned
Dispatch(m) ==
    /\ muts[m].pc = "dispatch"
    /\ muts' = [muts EXCEPT ![m] = [@ EXCEPT !.pc = "posted", !.posts = @ + 1]]
    /\ UNCHANGED <<entryVars, fetchVars, clockVars, nextMutation, baseline>>
    /\ UNCHANGED <<observerVars, appVars>>

\* the POST resolves with res.data; onSuccess(savedTodo, newTodo) runs
OnSuccess(m, sid) ==
    /\ muts[m].pc = "posted"
    /\ LET todos == getQueryData(CACHE_KEY_TODOS)
           newTodo == muts[m].variables
           savedTodo == SavedTodoObject(m, newTodo, sid)
       IN IF todos.kind = "undefined" \/ HasMap(todos)
          THEN /\ SetQueryData(CACHE_KEY_TODOS, ReplaceTodo(savedTodo, newTodo, todos))
               /\ muts' = [muts EXCEPT ![m] =
                             [@ EXCEPT !.pc = "settle", !.savedTodo = savedTodo,
                                       !.onSuccessCalls = @ + 1]]
          ELSE \* todos.map is not a function: onSuccess throws
               /\ muts' = [muts EXCEPT ![m] =
                             [@ EXCEPT !.pc = "onError", !.error = "TypeError",
                                       !.savedTodo = savedTodo,
                                       !.onSuccessCalls = @ + 1]]
               /\ UNCHANGED entryVars
    /\ UNCHANGED <<fetchVars, clockVars, nextMutation, baseline>>
    /\ UNCHANGED <<observerVars, appVars>>

\* the POST rejects
PostFails(m) ==
    /\ muts[m].pc = "posted"
    /\ IF ShouldRetryMutation(muts[m].failures)
       THEN muts' = [muts EXCEPT ![m] =
                       [@ EXCEPT !.failures = @ + 1, !.posts = @ + 1]]
       ELSE muts' = [muts EXCEPT ![m] =
                       [@ EXCEPT !.failures = @ + 1, !.pc = "onError",
                                 !.error = "NetworkError"]]
    /\ UNCHANGED <<entryVars, fetchVars, clockVars, nextMutation, baseline>>
    /\ UNCHANGED <<observerVars, appVars>>

\* mutant: the rollback is skipped once the form is gone
OnError_IfMounted(m) ==
    /\ muts[m].pc = "onError"
    /\ IF ~muts[m].hasContext \/ ~formMounted
       THEN /\ muts' = [muts EXCEPT ![m] =
                          [@ EXCEPT !.pc = "settle", !.onErrorCalls = @ + 1]]
            /\ UNCHANGED entryVars
       ELSE /\ SetQueryData(CACHE_KEY_TODOS, ArrayOf(muts[m].prvsTodos))
            /\ muts' = [muts EXCEPT ![m] =
                          [@ EXCEPT !.pc = "settle", !.onErrorCalls = @ + 1,
                                    !.rollbacks = @ + 1]]
    /\ UNCHANGED <<fetchVars, clockVars, nextMutation, baseline>>
    /\ UNCHANGED <<observerVars, appVars>>

\* mutant: the snapshot is not written back over a later fetch result
OnError_KeepFresher(m) ==
    /\ muts[m].pc = "onError"
    /\ IF ~muts[m].hasContext \/ fetchWrites[CACHE_KEY_TODOS] > muts[m].writesSeen
       THEN /\ muts' = [muts EXCEPT ![m] =
                          [@ EXCEPT !.pc = "settle", !.onErrorCalls = @ + 1]]
            /\ UNCHANGED entryVars
       ELSE /\ SetQueryData(CACHE_KEY_TODOS, ArrayOf(muts[m].prvsTodos))
            /\ muts' = [muts EXCEPT ![m] =
                          [@ EXCEPT !.pc = "settle", !.onErrorCalls = @ + 1,
                                    !.rollbacks = @ + 1]]
    /\ UNCHANGED <<fetchVars, clockVars, nextMutation, baseline>>
    /\ UNCHANGED <<observerVars, appVars>>

\* onError(error, newTodo, context)
OnError(m) ==
    /\ muts[m].pc = "onError"
    /\ IF ~muts[m].hasContext
       THEN \* if (!context) return;
            /\ muts' = [muts EXCEPT ![m] =
                          [@ EXCEPT !.pc = "settle", !.onErrorCalls = @ + 1]]
            /\ UNCHANGED entryVars
       ELSE /\ SetQueryData(CACHE_KEY_TODOS, ArrayOf(muts[m].prvsTodos))
            /\ muts' = [muts EXCEPT ![m] =
                          [@ EXCEPT !.pc = "settle", !.onErrorCalls = @ + 1,
                                    !.rollbacks = @ + 1]]
    /\ UNCHANGED <<fetchVars, clockVars, nextMutation, baseline>>
    /\ UNCHANGED <<observerVars, appVars>>

\* the result reaches the caller: addTodo.isLoading ends, addTodo.error is set
Settle(m) ==
    /\ muts[m].pc = "settle"
    /\ muts' = [muts EXCEPT ![m] =
                  [@ EXCEPT !.pc = "done",
                            !.status = IF muts[m].error = "none"
                                       THEN "success" ELSE "error"]]
    /\ UNCHANGED <<entryVars, fetchVars, clockVars, nextMutation, baseline>>
    /\ UNCHANGED <<observerVars, appVars>>

(***************************************************************************)
(* useTodos / usePosts: the query executor                                 *)
(***************************************************************************)
HasData(k) == cache[k].kind # "undefined"

\* an entry is stale once now - lastUpdatedAt > staleAfterMs, or if invalidated
IsStale(k) == isInvalidated[k] \/ now - dataUpdatedAt[k] > StaleTime(k)

IsFresh(k) == HasData(k) /\ ~IsStale(k)

InFlight(k) == {f \in fetches : f.key = k}

\* mutant: an entry that holds data is never fetched again
ShouldStartFetch_OnlyWhenEmpty(k) == InFlight(k) = {} /\ ~HasData(k)

\* mutant: a request starts a fetch although one is in flight
ShouldStartFetch_NoDedup(k) == ~IsFresh(k)

\* a new request attaches to the fetch in flight instead of starting another
ShouldStartFetch(k) == InFlight(k) = {} /\ ~IsFresh(k)

\* mutant: retry: 1
ShouldRetryQuery_Once(failures) == failures <= 1

\* a failed fetch is retried while its failures do not exceed retry
ShouldRetryQuery(failures) == failures <= QueryRetry

\* component c mounts and renders useTodos() / usePosts():
\* query(key, fetcher, options); components mount in the order of their index
QueryCall(c, k) ==
    /\ callers[c].state = "unmounted"
    /\ \A d \in Callers : d < c => callers[d].state # "unmounted"
    /\ IF ShouldStartFetch(k)
       THEN /\ fetches' = fetches \cup {[key |-> k, id |-> nextRequestId, phase |-> "pending"]}
            /\ nextRequestId' = nextRequestId + 1
            /\ fetcherCalls' = [fetcherCalls EXCEPT ![k] = @ + 1]
            /\ fetchStarts' = [fetchStarts EXCEPT ![k] = @ + 1]
            /\ failureCount' = [failureCount EXCEPT ![k] = 0]
            /\ queryStatus' = [queryStatus EXCEPT ![k] = "loading"]
            /\ callers' = [callers EXCEPT ![c] =
                             [key |-> k, req |-> nextRequestId, state |-> "waiting",
                              data |-> cache[k]]]
            /\ UNCHANGED servedFresh
       ELSE IF InFlight(k) # {}
       THEN /\ callers' = [callers EXCEPT ![c] =
                             [key |-> k, req |-> (CHOOSE f \in InFlight(k) : TRUE).id,
                              state |-> "waiting", data |-> cache[k]]]
            /\ UNCHANGED <<fetches, nextRequestId, fetcherCalls, fetchStarts,
                           failureCount, queryStatus, servedFresh>>
       ELSE /\ callers' = [callers EXCEPT ![c] =
                             [key |-> k, req |-> 0, state |-> "served",
                              data |-> cache[k]]]
            /\ servedFresh' = [servedFresh EXCEPT ![k] = Min(@ + 1, 1)]
            /\ UNCHANGED <<fetches, nextRequestId, fetcherCalls, fetchStarts,
                           failureCount, queryStatus>>
    /\ firstCallAt' = [firstCallAt EXCEPT ![k] = IF @ = 0 THEN now ELSE @]
    /\ observerCount' = [observerCount EXCEPT ![k] = @ + 1]
    /\ subscribed' = [subscribed EXCEPT ![c] = TRUE]
    /\ UNCHANGED <<cache, dataUpdatedAt, isInvalidated, fetchWrites, errorNotices,
                   rejections, clockVars, mutationVars>>
    /\ UNCHANGED <<tokenCalls, lastSweepAt, invalidateCalls, formMounted, appVars>>

\* the queryFn resolves: the result is written and handed to every caller
FetchSucceeds(f) ==
    /\ f \in fetches
    /\ f.phase = "pending"
    /\ LET k == f.key
           result == QueryFnResult(k)
       IN /\ cache' = [cache EXCEPT ![k] = result]
          /\ dataUpdatedAt' = [dataUpdatedAt EXCEPT ![k] = now]
          /\ queryStatus' = [queryStatus EXCEPT ![k] = "success"]
          /\ isInvalidated' = [isInvalidated EXCEPT ![k] = FALSE]
          /\ failureCount' = [failureCount EXCEPT ![k] = 0]
          /\ fetchWrites' = [fetchWrites EXCEPT ![k] = @ + 1]
          /\ callers' = [c \in Callers |->
                           IF callers[c].state = "waiting" /\ callers[c].req = f.id
                           THEN [callers[c] EXCEPT !.state = "served", !.data = result]
                           ELSE callers[c]]
    /\ fetches' = fetches \ {f}
    /\ UNCHANGED <<fetcherCalls, fetchStarts, errorNotices, servedFresh,
                   firstCallAt, rejections, nextRequestId, clockVars, mutationVars>>
    /\ UNCHANGED <<observerVars, appVars>>

\* the queryFn rejects: retry under the same request, or give up with an error
FetchFails(f) ==
    /\ f \in fetches
    /\ f.phase = "pending"
    /\ QueryFnCanReject(f.key)
    /\ LET k == f.key
           failures == failureCount[k] + 1
       IN /\ failureCount' = [failureCount EXCEPT ![k] = failures]
          /\ rejections' = [rejections EXCEPT ![k] = TRUE]
          /\ IF ShouldRetryQuery(failures)
             THEN /\ fetches' = (fetches \ {f}) \cup {[f EXCEPT !.phase = "retrying"]}
                  /\ UNCHANGED <<queryStatus, errorNotices, callers>>
             ELSE /\ fetches' = fetches \ {f}
                  /\ queryStatus' = [queryStatus EXCEPT ![k] = "error"]
                  /\ errorNotices' = [errorNotices EXCEPT ![k] = Min(@ + 1, 1)]
                  /\ callers' = [c \in Callers |->
                                   IF callers[c].state = "waiting" /\ callers[c].req = f.id
                                   THEN [callers[c] EXCEPT !.state = "served"]
                                   ELSE callers[c]]
    /\ UNCHANGED <<cache, dataUpdatedAt, isInvalidated, fetcherCalls, fetchStarts,
                   fetchWrites, servedFresh, firstCallAt, nextRequestId, clockVars,
                   mutationVars>>
    /\ UNCHANGED <<observerVars, appVars>>

\* the retry delay is over: the queryFn is called again, same request identity
FetchRetry(f) ==
    /\ f \in fetches
    /\ f.phase = "retrying"
    /\ fetches' = (fetches \ {f}) \cup {[f EXCEPT !.phase = "pending"]}
    /\ fetcherCalls' = [fetcherCalls EXCEPT ![f.key] = @ + 1]
    /\ UNCHANGED <<entryVars, failureCount, fetchStarts, fetchWrites, errorNotices,
                   servedFresh, firstCallAt, rejections, nextRequestId, callers,
                   clockVars, mutationVars>>
    /\ UNCHANGED <<observerVars, appVars>>

\* time passes
Tick(d) ==
    /\ ticks < MaxTicks
    /\ now' = now + d
    /\ ticks' = ticks + 1
    /\ UNCHANGED <<entryVars, fetchVars, mutationVars>>
    /\ UNCHANGED <<observerVars, appVars>>

(***************************************************************************)
(* Observer registry, invalidation and garbage collection                  *)
(***************************************************************************)
\* an entry exists from the first request or write of its key until eviction
HasEntry(k) == queryStatus[k] # "idle"

\* mutant: the token decrements every time it is called
StillSubscribed_Always(c) == TRUE

\* the token of component c has not been used yet
StillSubscribed(c) == subscribed[c]

\* component c unmounts (or calls its token again): unsubscribe()
Unsubscribe(c) ==
    /\ callers[c].state # "unmounted"
    /\ tokenCalls[c] < MaxTokenCalls
    /\ tokenCalls' = [tokenCalls EXCEPT ![c] = @ + 1]
    /\ IF StillSubscribed(c)
       THEN /\ observerCount' = [observerCount EXCEPT ![callers[c].key] = @ - 1]
            /\ subscribed' = [subscribed EXCEPT ![c] = FALSE]
            /\ callers' = [callers EXCEPT ![c] = [@ EXCEPT !.state = "gone"]]
       ELSE UNCHANGED <<observerCount, subscribed, callers>>
    /\ UNCHANGED <<entryVars, fetches, failureCount, fetcherCalls, fetchStarts,
                   fetchWrites, errorNotices, servedFresh, firstCallAt,
                   rejections, nextRequestId, clockVars, mutationVars,
                   lastSweepAt, invalidateCalls, formMounted, appVars>>

\* TodoForm is removed from the screen; its open mutations are abandoned
UnmountForm ==
    /\ formMounted
    /\ formMounted' = FALSE
    /\ muts' = [m \in Mutations |->
                  IF IsOpen(muts[m]) THEN [muts[m] EXCEPT !.abandoned = TRUE]
                  ELSE muts[m]]
    /\ UNCHANGED <<entryVars, fetchVars, clockVars, nextMutation, baseline,
                   observerCount, subscribed, tokenCalls, lastSweepAt,
                   invalidateCalls, appVars>>

\* mutant: the sweep looks at the age of the entry only
Evictable_ByAgeOnly(k) ==
    /\ HasEntry(k)
    /\ now - dataUpdatedAt[k] > RetentionMs

\* an entry without observers, older than the retention period and not in
\* the snapshot/apply sequence of a mutation
Evictable(k) ==
    /\ HasEntry(k)
    /\ observerCount[k] = 0
    /\ now - dataUpdatedAt[k] > RetentionMs
    /\ ~(k = CACHE_KEY_TODOS /\ \E m \in Mutations : IsOpen(muts[m]))

\* one sweep of the garbage collector: remove(key) for every evictable entry
GcSweep ==
    /\ lastSweepAt < now
    /\ lastSweepAt' = now
    /\ cache' = [k \in Keys |-> IF Evictable(k) THEN Undefined ELSE cache[k]]
    /\ dataUpdatedAt' = [k \in Keys |-> IF Evictable(k) THEN 0 ELSE dataUpdatedAt[k]]
    /\ queryStatus' = [k \in Keys |-> IF Evictable(k) THEN "idle" ELSE queryStatus[k]]
    /\ isInvalidated' = [k \in Keys |-> IF Evictable(k) THEN FALSE ELSE isInvalidated[k]]
    /\ UNCHANGED <<fetchVars, clockVars, mutationVars, observerCount, subscribed,
                   tokenCalls, invalidateCalls, formMounted, appVars>>

\* mutant: only the key equal to the argument matches
isPrefixOf_Exact(a, b) == a = b

\* all segments of a are a prefix of b
isPrefixOf(a, b) ==
    /\ Len(a) <= Len(b)
    /\ \A i \in 1..Len(a) : a[i] = b[i]

\* entries matched by invalidate(prefix)
Matching(prefix) == {k \in Keys : HasEntry(k) /\ isPrefixOf(prefix, KeySegments(k))}

\* matched entries that are refetched: observed, and no fetch in flight
Refetched(prefix) ==
    {k \in Matching(prefix) : observerCount[k] > 0 /\ InFlight(k) = {}}

\* request identity of the refetch of k: in the order todos, posts
RefetchId(prefix, k) ==
    IF k = CACHE_KEY_POSTS /\ CACHE_KEY_TODOS \in Refetched(prefix)
    THEN nextRequestId + 1 ELSE nextRequestId

\* invalidate(prefix): mark the matching entries stale and refetch the
\* observed ones
Invalidate(prefix) ==
    /\ prefix \notin invalidateCalls
    /\ invalidateCalls' = invalidateCalls \cup {prefix}
    /\ isInvalidated' = [k \in Keys |-> (k \in Matching(prefix)) \/ isInvalidated[k]]
    /\ queryStatus' = [k \in Keys |->
                         IF k \in Refetched(prefix) THEN "loading" ELSE queryStatus[k]]
    /\ fetches' = fetches \cup
                    {[key |-> k, id |-> RefetchId(prefix, k), phase |-> "pending"] :
                        k \in Refetched(prefix)}
    /\ nextRequestId' = nextRequestId + Cardinality(Refetched(prefix))
    /\ fetcherCalls' = [k \in Keys |->
                          IF k \in Refetched(prefix) THEN fetcherCalls[k] + 1
                          ELSE fetcherCalls[k]]
    /\ fetchStarts' = [k \in Keys |->
                         IF k \in Refetched(prefix) THEN fetchStarts[k] + 1
                         ELSE fetchStarts[k]]
    /\ failureCount' = [k \in Keys |->
                          IF k \in Refetched(prefix) THEN 0 ELSE failureCount[k]]
    /\ callers' = [c \in Callers |->
                     IF subscribed[c] /\ callers[c].key \in Refetched(prefix)
                     THEN [callers[c] EXCEPT !.state = "waiting",
                                             !.req = RefetchId(prefix, callers[c].key)]
                     ELSE callers[c]]
    /\ UNCHANGED <<cache, dataUpdatedAt, fetchWrites, errorNotices, servedFresh,
                   firstCallAt, rejections, clockVars, mutationVars,
                   observerCount, subscribed, tokenCalls, lastSweepAt,
                   formMounted, appVars>>

(***************************************************************************)
(* usePosts (useInfiniteQuery) and the Load More button of PostList        *)
(***************************************************************************)
\* undefined as a page parameter
NoPageParam == 0

\* mutant: the page number is incremented forever
getNextPageParam_Always(lastPage, allPages) == Len(allPages) + 1

\* getNextPageParam: lastPage.length > 0 ? allPages.length + 1 : undefined
getNextPageParam(lastPage, allPages) ==
    IF Len(lastPage) > 0 THEN Len(allPages) + 1 ELSE NoPageParam

\* PostList mounts: the first page is requested with pageParam = 1
PostListMount ==
    /\ requested = <<>>
    /\ pageFetch' = 1
    /\ requested' = <<1>>
    /\ UNCHANGED <<entryVars, fetchVars, clockVars, mutationVars, observerVars, uiVars,
                   storeVars, counterVars, taskVars, serverPosts, pages, clicks>>

\* the page request resolves with res.data
PageArrives ==
    /\ pageFetch # 0
    /\ pages' = Append(pages, fetchPosts(pageFetch, PageSize))
    /\ pageFetch' = 0
    /\ UNCHANGED <<entryVars, fetchVars, clockVars, mutationVars, observerVars, uiVars,
                   storeVars, counterVars, taskVars, serverPosts, requested, clicks>>

\* Load More is clicked (the button is disabled while isFetchingNextPage):
\* fetchNextPage() requests the page getNextPageParam names, if any
fetchNextPage ==
    /\ pages # <<>>
    /\ pageFetch = 0
    /\ clicks < MaxClicks
    /\ clicks' = clicks + 1
    /\ LET pageParam == getNextPageParam(pages[Len(pages)], pages)
       IN IF pageParam = NoPageParam
          THEN UNCHANGED <<pageFetch, requested>>
          ELSE /\ pageFetch' = pageParam
               /\ requested' = Append(requested, pageParam)
    /\ UNCHANGED <<entryVars, fetchVars, clockVars, mutationVars, observerVars, uiVars,
                   storeVars, counterVars, taskVars, serverPosts, pages>>

(***************************************************************************)
(* taskReducer                                                             *)
(***************************************************************************)
\* mutant: ADD puts the task at the end of the list
taskReducer_Append(list, action) ==
    IF action.type = "ADD" THEN list \o <<action.task>>
    ELSE IF action.type = "DELETE"
    THEN SelectSeq(list, LAMBDA task : action.taskId # task.id)
    ELSE list

\* mutant: the filter of DELETE tests === instead of !==
taskReducer_DeleteKeeps(list, action) ==
    IF action.type = "ADD" THEN <<action.task>> \o list
    ELSE IF action.type = "DELETE"
    THEN SelectSeq(list, LAMBDA task : action.taskId = task.id)
    ELSE list

taskReducer(list, action) ==
    IF action.type = "ADD" THEN <<action.task>> \o list
    ELSE IF action.type = "DELETE"
    THEN SelectSeq(list, LAMBDA task : action.taskId # task.id)
    ELSE list

\* mutant: the copy adds the task at the end, [...tasks, action.task]
TaskProvider_taskReducer_AddsLast(list, action) ==
    IF action.type = "ADD" THEN list \o <<action.task>>
    ELSE IF action.type = "DELETE"
    THEN SelectSeq(list, LAMBDA task : action.taskId # task.id)
    ELSE list

\* the copy of taskReducer in tasks/TaskProvider.tsx
TaskProvider_taskReducer(list, action) ==
    IF action.type = "ADD" THEN <<action.task>> \o list
    ELSE IF action.type = "DELETE"
    THEN SelectSeq(list, LAMBDA task : action.taskId # task.id)
    ELSE list

\* mutant: ADD is tasks.unshift(action.task), DELETE splices the array
tasksAfterCall_InPlace(list, action) ==
    IF action.type = "ADD" THEN <<action.task>> \o list
    ELSE IF action.type = "DELETE"
    THEN SelectSeq(list, LAMBDA task : action.taskId # task.id)
    ELSE list

\* the array passed as `tasks`, after the call: the spread and filter build
\* a new array and nothing is assigned to the one passed in
tasksAfterCall(list, action) == list

\* dispatch(action) of useReducer(taskReducer, []) in TaskProvider
TaskDispatch(action) ==
    /\ Len(taskReducer(tasks, action)) <= MaxTasks
    /\ tasks' = taskReducer(tasks, action)
    /\ passedTasks' = tasksAfterCall(tasks, action)
    /\ prevTasks' = tasks
    /\ lastTaskAction' = action
    /\ UNCHANGED <<entryVars, fetchVars, clockVars, mutationVars, observerVars, uiVars,
                   storeVars, counterVars, pagingVars>>

(***************************************************************************)
(* counterReducer                                                          *)
(***************************************************************************)
\* mutant: RESET falls through to the final return
counterReducer_NoReset(state, action) ==
    IF action.type = "INCREMENT" THEN state + 1 ELSE state

counterReducer(state, action) ==
    IF action.type = "INCREMENT" THEN state + 1
    ELSE IF action.type = "RESET" THEN 0
    ELSE state

\* dispatch(action) of useReducer(counterReducer, 0)
CounterDispatch(type) ==
    /\ counterReducer(value, [type |-> type]) <= MaxCount
    /\ value' = counterReducer(value, [type |-> type])
    /\ lastAction' = type
    /\ sinceReset' = IF type = "INCREMENT" THEN sinceReset + 1
                     ELSE IF type = "RESET" THEN 0
                     ELSE sinceReset
    /\ UNCHANGED <<entryVars, fetchVars, clockVars, mutationVars, observerVars, uiVars, storeVars,
                   taskVars, pagingVars>>

(***************************************************************************)
(* useCounterStore (zustand) and the components reading it                 *)
(***************************************************************************)
\* what a component passes to useCounterStore: Counter and NavBar pass no
\* selector, so each of them selects the whole state object
Selector(c) == "state"

\* the selected value; a state object is told apart by its identity (obj),
\* a number by its value
Select(sel, st) ==
    IF sel = "counter" THEN [obj |-> 0, counter |-> st.counter] ELSE st

\* set(partial): Object.assign({}, state, partial), always a new state object
SetState(st, partial) == [obj |-> st.obj + 1, counter |-> partial.counter]

\* the hook re-renders its component when the selection of the new state
\* is not the selection of the previous state (Object.is)
Rerenders(c, previous, state) ==
    Select(Selector(c), previous) # Select(Selector(c), state)

\* set(...) of the store: the state is replaced and the listeners are called
StoreSet(partial) ==
    LET state == SetState(store, partial)
    IN /\ store' = state
       /\ renders' = [c \in Components |->
                        IF Rerenders(c, store, state) THEN renders[c] + 1
                        ELSE renders[c]]
       /\ shown' = [c \in Components |->
                      IF Rerenders(c, store, state) THEN state.counter
                      ELSE shown[c]]

\* increament: () => set((store) => ({ counter: store.counter + 1 }))
increament ==
    /\ storeCalls < MaxStoreCalls
    /\ StoreSet([counter |-> store.counter + 1])
    /\ storeCalls' = storeCalls + 1
    /\ folded' = counterReducer(folded, [type |-> "INCREMENT"])
    /\ UNCHANGED <<entryVars, fetchVars, clockVars, mutationVars, observerVars, uiVars, counterVars,
                   taskVars, pagingVars>>

\* mutant: reset writes another property and leaves counter alone
reset_KeepsCounter ==
    /\ storeCalls < MaxStoreCalls
    /\ StoreSet([counter |-> store.counter])
    /\ storeCalls' = storeCalls + 1
    /\ folded' = counterReducer(folded, [type |-> "RESET"])
    /\ UNCHANGED <<entryVars, fetchVars, clockVars, mutationVars, observerVars, uiVars, counterVars,
                   taskVars, pagingVars>>

\* reset: () => set(() => ({ counter: 0 }))
reset ==
    /\ storeCalls < MaxStoreCalls
    /\ StoreSet([counter |-> 0])
    /\ storeCalls' = storeCalls + 1
    /\ folded' = counterReducer(folded, [type |-> "RESET"])
    /\ UNCHANGED <<entryVars, fetchVars, clockVars, mutationVars, observerVars, uiVars, counterVars,
                   taskVars, pagingVars>>

(***************************************************************************)
(* AuthReducer, AuthProvider, useAuthStore and LoginStatus                 *)
(***************************************************************************)
\* mutant: LOGOUT falls through and keeps the user
AuthReducer_KeepOnLogout(state, action) ==
    IF action.type = "LOGIN" THEN action.user
    ELSE IF action.type = "LOGOUT" THEN state
    ELSE ""

AuthReducer(state, action) ==
    IF action.type = "LOGIN" THEN action.user
    ELSE IF action.type = "LOGOUT" THEN ""
    ELSE ""

\* the copy of AuthReducer in auth/AuthProvider.tsx
AuthProvider_AuthReducer(state, action) ==
    IF action.type = "LOGIN" THEN action.user
    ELSE IF action.type = "LOGOUT" THEN ""
    ELSE ""

\* mutant: the providers share one state and LOGOUT empties the task list
AuthDispatch_ClearsTasks(action) ==
    /\ user' = AuthReducer(user, action)
    /\ lastAuthAction' = action
    /\ tasks' = IF action.type = "LOGOUT" THEN <<>> ELSE tasks
    /\ UNCHANGED <<entryVars, fetchVars, clockVars, mutationVars, observerVars,
                   storeVars, counterVars, prevTasks, lastTaskAction, passedTasks,
                   pagingVars, routeVars, authStore, loginStatus>>

\* dispatch(action) of useReducer(AuthReducer, "") in AuthProvider
AuthDispatch(action) ==
    /\ user' = AuthReducer(user, action)
    /\ lastAuthAction' = action
    /\ UNCHANGED <<entryVars, fetchVars, clockVars, mutationVars, observerVars,
                   storeVars, counterVars, taskVars, pagingVars, routeVars,
                   authStore, loginStatus>>

\* LoginStatus: if (user) the Logout link, else the Login link
LoginStatus(u) == IF u # "" THEN "Logout" ELSE "Login"

\* login: (username) => set(() => ({ user: username })), called by the
\* Login link with "mosh.hamedani"; LoginStatus renders the new state
login(username) ==
    /\ loginStatus = "Login"
    /\ authStore' = [user |-> username]
    /\ loginStatus' = LoginStatus(username)
    /\ UNCHANGED <<entryVars, fetchVars, clockVars, mutationVars, observerVars,
                   storeVars, counterVars, taskVars, pagingVars, routeVars,
                   user, lastAuthAction>>

\* logout: () => set(() => ({ user: "" })), called by the Logout link
logout ==
    /\ loginStatus = "Logout"
    /\ authStore' = [user |-> ""]
    /\ loginStatus' = LoginStatus("")
    /\ UNCHANGED <<entryVars, fetchVars, clockVars, mutationVars, observerVars,
                   storeVars, counterVars, taskVars, pagingVars, routeVars,
                   user, lastAuthAction>>

(***************************************************************************)
(* Routes (createBrowserRouter) and the PrivateRoutes layout route         *)
(***************************************************************************)
Location == history[Len(history)]

\* mutant: the users routes are children of the Layout route
MatchRoute_UsersUnderLayout(path) ==
    IF path = HomePath THEN <<"Layout", "HomePage">>
    ELSE IF path = LoginPath THEN <<"Layout", "LoginPage">>
    ELSE IF path = UsersPath THEN <<"Layout", "UsersPage">>
    ELSE IF Len(path) = 2 /\ path[1] = "users"
    THEN <<"Layout", "UsersPage", "UserDetail">>
    ELSE <<"ErrorPage">>

\* the elements of the routes matching a path, outermost first; a path
\* that matches no route renders the errorElement
MatchRoute(path) ==
    IF path = HomePath THEN <<"Layout", "HomePage">>
    ELSE IF path = LoginPath THEN <<"Layout", "LoginPage">>
    ELSE IF path = UsersPath THEN <<"PrivateRoutes", "UsersPage">>
    ELSE IF Len(path) = 2 /\ path[1] = "users"
    THEN <<"PrivateRoutes", "UsersPage", "UserDetail">>
    ELSE <<"ErrorPage">>

\* if (!user): null is falsy, an object is truthy
Falsy(u) == u = NullUser

\* PrivateRoutes: if (!user) return <Navigate to="/login" />; return <Outlet />;
\* the other elements render their Outlet
RenderRoutes(matches, u) ==
    IF matches # <<>> /\ matches[1] = "PrivateRoutes" /\ Falsy(u)
    THEN <<"PrivateRoutes", "Navigate">>
    ELSE matches

IsRendered(element) == \E i \in 1..Len(rendered) : rendered[i] = element

\* a NavLink is clicked or a path is entered in the address bar
NavigateTo(path) ==
    /\ ~IsRendered("Navigate")
    /\ navigations < MaxNavigations
    /\ navigations' = navigations + 1
    /\ history' = Append(history, path)
    /\ rendered' = RenderRoutes(MatchRoute(path), routeUser)
    /\ UNCHANGED <<entryVars, fetchVars, clockVars, mutationVars, observerVars,
                   storeVars, counterVars, taskVars, pagingVars, routeUser,
                   authVars>>

\* the Back button of the browser
GoBack ==
    /\ ~IsRendered("Navigate")
    /\ navigations < MaxNavigations
    /\ Len(history) > 1
    /\ navigations' = navigations + 1
    /\ history' = SubSeq(history, 1, Len(history) - 1)
    /\ rendered' = RenderRoutes(MatchRoute(history[Len(history) - 1]), routeUser)
    /\ UNCHANGED <<entryVars, fetchVars, clockVars, mutationVars, observerVars,
                   storeVars, counterVars, taskVars, pagingVars, routeUser,
                   authVars>>

\* the effect of <Navigate to="/login" /> runs once it is on the screen
Redirect ==
    /\ IsRendered("Navigate")
    /\ history' = Append(history, LoginPath)
    /\ rendered' = RenderRoutes(MatchRoute(LoginPath), routeUser)
    /\ UNCHANGED <<entryVars, fetchVars, clockVars, mutationVars, observerVars,
                   storeVars, counterVars, taskVars, pagingVars, routeUser,
                   navigations, authVars>>

Next ==
    \/ \E t \in Titles : Mutate(t)
    \/ \E m \in Mutations : OnMutate(m)
    \/ \E m \in Mutations : OnMutateThrows(m)
    \/ \E m \in Mutations : Dispatch(m)
    \/ \E m \in Mutations, sid \in ServerIds : OnSuccess(m, sid)
    \/ \E m \in Mutations : PostFails(m)
    \/ \E m \in Mutations : OnError(m)
    \/ \E m \in Mutations : Settle(m)
    \/ \E c \in Callers, k \in Keys : QueryCall(c, k)
    \/ \E f \in fetches : FetchSucceeds(f)
    \/ \E f \in fetches : FetchFails(f)
    \/ \E f \in fetches : FetchRetry(f)
    \/ \E d \in TickSteps : Tick(d)
    \/ \E d \in SweepSteps : Tick(d)
    \/ \E c \in Callers : Unsubscribe(c)
    \/ UnmountForm
    \/ GcSweep
    \/ \E prefix \in Prefixes : Invalidate(prefix)
    \/ increament
    \/ reset
    \/ \E type \in CounterActionTypes : CounterDispatch(type)
    \/ \E action \in TaskActions : TaskDispatch(action)
    \/ PostListMount
    \/ PageArrives
    \/ fetchNextPage
    \/ \E path \in Paths : NavigateTo(path)
    \/ GoBack
    \/ Redirect
    \/ \E action \in AuthActions : AuthDispatch(action)
    \/ login("mosh.hamedani")
    \/ logout

Spec == Init /\ [][Next]_vars

MutationNext ==
    \/ \E t \in Titles : Mutate(t)
    \/ \E m \in Mutations : OnMutate(m)
    \/ \E m \in Mutations : Dispatch(m)
    \/ \E m \in Mutations, sid \in ServerIds : OnSuccess(m, sid)
    \/ \E m \in Mutations : PostFails(m)
    \/ \E m \in Mutations : OnError(m)
    \/ \E m \in Mutations : Settle(m)
    \/ QueryCall(1, CACHE_KEY_TODOS)
    \/ \E f \in fetches : FetchSucceeds(f)

MutationSpec == Init /\ [][MutationNext]_vars

QueryNext ==
    \/ \E c \in Callers, k \in Keys : QueryCall(c, k)
    \/ \E f \in fetches : FetchSucceeds(f)
    \/ \E f \in fetches : FetchFails(f)
    \/ \E f \in fetches : FetchRetry(f)
    \/ \E d \in TickSteps : Tick(d)

QuerySpec == Init /\ [][QueryNext]_vars

ObserverNext ==
    \/ \E c \in Callers, k \in Keys : QueryCall(c, k)
    \/ \E f \in fetches : FetchSucceeds(f)
    \/ \E c \in Callers : Unsubscribe(c)

ObserverSpec == Init /\ [][ObserverNext]_vars

GcNext ==
    \/ \E c \in Callers : QueryCall(c, CACHE_KEY_POSTS)
    \/ \E f \in fetches : FetchSucceeds(f)
    \/ \E c \in Callers : Unsubscribe(c)
    \/ GcSweep
    \/ \E d \in SweepSteps : Tick(d)

GcSpec == Init /\ [][GcNext]_vars

InvalidateNext ==
    \/ \E c \in Callers, k \in Keys : QueryCall(c, k)
    \/ \E f \in fetches : FetchSucceeds(f)
    \/ \E c \in Callers : Unsubscribe(c)
    \/ \E prefix \in Prefixes : Invalidate(prefix)

InvalidateSpec == Init /\ [][InvalidateNext]_vars

\* useAddTodo given an onAdd callback that may throw
OnAddNext ==
    \/ \E t \in Titles : Mutate(t)
    \/ \E m \in Mutations : OnMutate(m)
    \/ \E m \in Mutations : OnMutateThrows(m)
    \/ \E m \in Mutations : Dispatch(m)
    \/ \E m \in Mutations, sid \in ServerIds : OnSuccess(m, sid)
    \/ \E m \in Mutations : PostFails(m)
    \/ \E m \in Mutations : OnError(m)
    \/ \E m \in Mutations : Settle(m)

OnAddSpec == Init /\ [][OnAddNext]_vars

AbandonNext ==
    \/ \E t \in Titles : Mutate(t)
    \/ \E m \in Mutations : OnMutate(m)
    \/ \E m \in Mutations : Dispatch(m)
    \/ \E m \in Mutations, sid \in ServerIds : OnSuccess(m, sid)
    \/ \E m \in Mutations : PostFails(m)
    \/ \E m \in Mutations : OnError(m)
    \/ \E m \in Mutations : Settle(m)
    \/ QueryCall(1, CACHE_KEY_TODOS)
    \/ \E f \in fetches : FetchSucceeds(f)
    \/ Unsubscribe(1)
    \/ UnmountForm

AbandonSpec == Init /\ [][AbandonNext]_vars

CounterNext ==
    \/ increament
    \/ reset
    \/ \E type \in CounterActionTypes : CounterDispatch(type)

CounterSpec == Init /\ [][CounterNext]_vars

TaskNext == \E action \in TaskActions : TaskDispatch(action)

TaskSpec == Init /\ [][TaskNext]_vars

PagingNext ==
    \/ PostListMount
    \/ PageArrives
    \/ fetchNextPage

PagingSpec == PagingInit /\ [][PagingNext]_vars

\* App: TaskProvider, AuthProvider, Counter and NavBar on the counter store,
\* LoginStatus on the auth store
AppNext ==
    \/ \E action \in TaskActions : TaskDispatch(action)
    \/ \E action \in AuthActions : AuthDispatch(action)
    \/ login("mosh.hamedani")
    \/ logout
    \/ increament
    \/ reset

AppSpec == Init /\ [][AppNext]_vars

\* the three reducers, each under useReducer
ReducerNext ==
    \/ \E action \in TaskActions : TaskDispatch(action)
    \/ \E type \in CounterActionTypes : CounterDispatch(type)
    \/ \E action \in AuthActions : AuthDispatch(action)

ReducerSpec == Init /\ [][ReducerNext]_vars

RouterNext ==
    \/ \E path \in Paths : NavigateTo(path)
    \/ GoBack
    \/ Redirect

RouterSpec == RouterInit /\ [][RouterNext]_vars

(***************************************************************************)
(* Claims                                                                  *)
(***************************************************************************)
Todos == cache[CACHE_KEY_TODOS]

\* the step in which onError of mutation m runs after its remote write failed
RollbackStep(m) ==
    /\ muts[m].pc = "onError"
    /\ muts[m].error = "NetworkError"
    /\ muts'[m].pc = "settle"

\* C1: when the remote write of an addTodo mutation fails, the cache value of
\* ["todos"] after onError is identical to the value it held immediately
\* before the speculative write of onMutate, whether that was a list or no
\* data at all.
C1_RollbackRestoresPriorValue ==
    [][\A m \in Mutations :
          RollbackStep(m) => cache'[CACHE_KEY_TODOS] = muts[m].before]_vars

\* every mutation started so far has failed remotely and has rolled back
AllFailedAndRolledBack ==
    /\ nextMutation > 1
    /\ \A m \in Mutations :
         m < nextMutation =>
            /\ muts[m].pc \in {"settle", "done"}
            /\ muts[m].error = "NetworkError"
            /\ muts[m].rollbacks = 1

\* C2: for every set of addTodo mutations that all fail, in every interleaving
\* of their onMutate and onError steps, once all of them have rolled back the
\* cache value of ["todos"] equals its value before the first mutation began
\* (no fetch having written the entry in between).
C2_AllFailedRestoresBaseline ==
    (AllFailedAndRolledBack /\ fetchWrites[CACHE_KEY_TODOS] = baseline.fetchWrites)
        => Todos = baseline.value

\* the step in which onSuccess of mutation m is called
SuccessStep(m) ==
    /\ muts[m].pc = "posted"
    /\ muts'[m].onSuccessCalls = muts[m].onSuccessCalls + 1

\* C3: when a single addTodo mutation is in flight and succeeds, after
\* onSuccess the cache holds the server-returned todo in the place of the
\* speculative todo; the other elements and their order are unchanged.
C3_SuccessReplacesSpeculative ==
    [][\A m \in Mutations :
          (SuccessStep(m) /\ ~muts'[m].overlapped) =>
              cache'[CACHE_KEY_TODOS] =
                  ArrayOf(<<muts'[m].savedTodo>> \o OrEmptyArray(muts[m].before).items)]_vars

\* order of the steps of one mutation, read from its counters
StepsInOrder(mu) ==
    /\ mu.posts >= 1 => (mu.hasContext /\ mu.onAddCalls = 1)
    /\ mu.onSuccessCalls + mu.onErrorCalls >= 1 => mu.posts >= 1
    /\ mu.onSuccessCalls + mu.onErrorCalls <= 1
    /\ mu.pc \in {"settle", "done"} => mu.onSuccessCalls + mu.onErrorCalls = 1
    /\ mu.status = "error" => mu.rollbacks = 1

\* the step in which onMutate of mutation m runs
OnMutateStep(m) == muts[m].pc = "onMutate" /\ muts'[m].pc # "onMutate"

\* C4: each addTodo mutation takes its snapshot, writes the new todo at the
\* head of ["todos"], dispatches the remote write and then runs exactly one of
\* onSuccess and onError; the speculative todo is in the cache before the
\* write is dispatched and the error reaches the caller only after the
\* rollback.
C4_StepOrder ==
    /\ [](\A m \in Mutations : StepsInOrder(muts[m]))
    /\ [][\A m \in Mutations :
             OnMutateStep(m) =>
                /\ muts[m].posts = 0
                /\ muts'[m].hasContext
                /\ cache'[CACHE_KEY_TODOS] =
                      ArrayOf(<<muts[m].variables>> \o OrEmptyArray(cache[CACHE_KEY_TODOS]).items)]_vars

\* C5: an addTodo mutation is never retried: every mutate call dispatches
\* todoService.post at most once, whatever the outcome of the write.
C5_NoAutomaticRetry == \A m \in Mutations : muts[m].posts <= 1

\* a mutation whose only write failed has delivered its error
C5_Witness ==
    \E m \in Mutations :
        /\ muts[m].pc = "done"
        /\ muts[m].error = "NetworkError"
        /\ muts[m].failures = 1
        /\ muts[m].posts = 1

\* mutations that hold a snapshot and have not run onSuccess or onError yet
Unsettled == {m \in Mutations : muts[m].hasContext /\ muts[m].pc \in {"dispatch", "posted", "onError"}}

\* C6: mutations on ["todos"] are serialized: no mutation runs onMutate while
\* another one has taken its snapshot and not yet completed its success or
\* rollback step.
C6_MutationsSerialized == Cardinality(Unsettled) <= 1

\* the step in which component c calls the query of key k
QueryCallStep(c, k) ==
    /\ callers'[c] # callers[c]
    /\ callers'[c].key = k
    /\ fetches \subseteq fetches'

\* the staleTime the hooks pass: useTodos 100 * 1000, usePosts 1 * 60 * 1000
StaleAfterMs(k) == IF k = CACHE_KEY_TODOS THEN 100000 ELSE 60000

\* C7: a query call made while the entry is fresh (now - lastUpdatedAt <=
\* staleAfterMs) is served from the cache without invoking the fetcher, so
\* the query calls made within staleAfterMs of the first one cause exactly one
\* fetcher call.
C7_FreshServedFromCache ==
    /\ [](\A k \in Keys :
            (/\ firstCallAt[k] > 0
             /\ now - firstCallAt[k] <= StaleAfterMs(k)
             /\ ~rejections[k]) => fetcherCalls[k] = 1)
    /\ [][\A c \in Callers, k \in Keys :
             (/\ QueryCallStep(c, k)
              /\ cache[k].kind # "undefined"
              /\ ~isInvalidated[k]
              /\ now - dataUpdatedAt[k] <= StaleAfterMs(k)) =>
                 /\ fetcherCalls' = fetcherCalls
                 /\ fetches' = fetches
                 /\ callers'[c].data = cache[k]]_vars

\* a component was served from the cache at the very end of the fresh period
C7_Witness ==
    \E c \in Callers, k \in Keys :
        /\ callers[c].key = k
        /\ callers[c].state = "served"
        /\ callers[c].req = 0
        /\ now - dataUpdatedAt[k] = StaleAfterMs(k)
        /\ servedFresh[k] = 1
        /\ fetcherCalls[k] = 1

\* C8: there is at most one in-flight fetch per key, a query call made while
\* the fetch is in flight starts no second one, and the callers attached to
\* one fetch receive the same data.
C8_OneFetchPerKey ==
    /\ \A k \in Keys : Cardinality({f \in fetches : f.key = k}) <= 1
    /\ \A c1, c2 \in Callers :
         (/\ callers[c1].req # 0
          /\ callers[c1].req = callers[c2].req
          /\ callers[c1].state = "served"
          /\ callers[c2].state = "served") =>
             /\ callers[c1].key = callers[c2].key
             /\ callers[c1].data = callers[c2].data

\* two components were attached to one fetch and have both been served by it
C8_Witness ==
    \E c1, c2 \in Callers :
        /\ c1 # c2
        /\ callers[c1].req # 0
        /\ callers[c1].req = callers[c2].req
        /\ callers[c1].state = "served"
        /\ callers[c2].state = "served"
        /\ callers[c1].data.kind # "undefined"
        /\ fetcherCalls[callers[c1].key] = 1

\* C9: todoService.getAll resolves to the list of todos of the /todos
\* endpoint, and that list is what a successful fetch writes into ["todos"].
C9_GetAllYieldsTodoList ==
    [][fetchWrites'[CACHE_KEY_TODOS] # fetchWrites[CACHE_KEY_TODOS] =>
          cache'[CACHE_KEY_TODOS].kind = "array"]_vars

\* C10: a failed fetch is retried up to 3 times under the same request
\* identity; the entry turns to error and observers are notified only once the
\* retries are exhausted, and the fetch stays in flight during the retries.
C10_RetriesBeforeError ==
    /\ [](\A k \in Keys :
            /\ failureCount[k] <= 4
            /\ queryStatus[k] = "error" => failureCount[k] = 4
            /\ errorNotices[k] > 0 => rejections[k]
            /\ (failureCount[k] > 0 /\ failureCount[k] < 4) =>
                  /\ queryStatus[k] # "error"
                  /\ \E f \in fetches : f.key = k)
    /\ [][\A k \in Keys :
             /\ failureCount'[k] > failureCount[k] =>
                   \/ failureCount'[k] = 4
                   \/ {f.id : f \in {g \in fetches' : g.key = k}} =
                      {f.id : f \in {g \in fetches : g.key = k}}
             /\ errorNotices'[k] # errorNotices[k] => failureCount'[k] = 4
             /\ (queryStatus'[k] = "error" /\ queryStatus[k] # "error") =>
                   (failureCount'[k] = 4 /\ errorNotices'[k] = 1)]_vars

\* the posts query gave up after the fourth failure of one request
C10_Witness ==
    /\ queryStatus[CACHE_KEY_POSTS] = "error"
    /\ failureCount[CACHE_KEY_POSTS] = 4
    /\ fetcherCalls[CACHE_KEY_POSTS] = 4
    /\ fetchStarts[CACHE_KEY_POSTS] = 1
    /\ errorNotices[CACHE_KEY_POSTS] = 1

\* the entry of k is not fresh: no data, invalidated, or older than staleAfterMs
NotFresh(k) ==
    \/ cache[k].kind = "undefined"
    \/ isInvalidated[k]
    \/ now - dataUpdatedAt[k] > StaleAfterMs(k)

\* C11: when a stale entry in status success or error is accessed it goes
\* back to loading with its data field unchanged, and the data stays what it
\* was until the refetch writes its result.
C11_RefetchRetainsData ==
    /\ [][\A c \in Callers, k \in Keys :
             (/\ QueryCallStep(c, k)
              /\ queryStatus[k] \in {"success", "error"}
              /\ NotFresh(k)) =>
                 /\ queryStatus'[k] = "loading"
                 /\ cache'[k] = cache[k]
                 /\ callers'[c].data = cache[k]]_vars
    /\ [][\A k \in Keys :
             (queryStatus[k] = "loading" /\ cache'[k] # cache[k]) =>
                 fetchWrites'[k] = fetchWrites[k] + 1]_vars

\* a component reads the last good value of a stale entry that is refetching
C11_Witness ==
    \E c \in Callers, k \in Keys :
        /\ callers[c].key = k
        /\ callers[c].state = "waiting"
        /\ queryStatus[k] = "loading"
        /\ fetchWrites[k] = 1
        /\ fetchStarts[k] = 2
        /\ now - dataUpdatedAt[k] > StaleAfterMs(k)
        /\ cache[k].kind # "undefined"
        /\ callers[c].data = cache[k]

\* C12: a selector subscriber is notified on a store update if and only if
\* the value of its selected projection changed; NavBar, which displays
\* counter, is never re-rendered by an update that leaves counter unchanged.
C12_NotifiedIffSelectionChanged ==
    [][renders'["NavBar"] # renders["NavBar"] <=> store'.counter # store.counter]_vars

\* the step in which the garbage collector removes the entry of k
EvictionStep(k) == queryStatus[k] # "idle" /\ queryStatus'[k] = "idle"

\* C13: the garbage collector never removes an entry whose observerCount is
\* greater than 0, however old it is; an entry is evicted only with
\* observerCount = 0 and now - lastUpdatedAt > retentionMs (5 minutes).
C13_GcSparesObservedEntries ==
    [][\A k \in Keys :
          EvictionStep(k) =>
             /\ observerCount[k] = 0
             /\ now - dataUpdatedAt[k] > 300000]_vars

\* an observed entry is still in the cache after a sweep made when it was
\* older than the retention period
C13_Witness ==
    \E k \in Keys :
        /\ observerCount[k] > 0
        /\ cache[k].kind # "undefined"
        /\ fetchWrites[k] = 1
        /\ lastSweepAt - dataUpdatedAt[k] > 300000

\* subscriptions to key k that are still active
ActiveSubscriptions(k) == {c \in Callers : subscribed[c] /\ callers[c].key = k}

\* C14: after any sequence of subscribe and unsubscribe calls, observerCount
\* of each entry equals the number of subscriptions to its key that are still
\* active and is never negative; a token used twice decrements only once.
C14_ObserverCountExact ==
    \A k \in Keys :
        /\ observerCount[k] = Cardinality(ActiveSubscriptions(k))
        /\ observerCount[k] >= 0

\* one token was used twice while another subscription to the key is active
C14_Witness ==
    \E c1, c2 \in Callers :
        /\ tokenCalls[c1] = 2
        /\ ~subscribed[c1]
        /\ subscribed[c2]
        /\ callers[c1].key = callers[c2].key
        /\ observerCount[callers[c2].key] = 1

\* the step in which invalidate(prefix) is called
InvalidateStep(prefix) ==
    prefix \notin invalidateCalls /\ prefix \in invalidateCalls'

\* the keys of the cache that start with the prefix
StartsWith(k, prefix) ==
    \/ k = CACHE_KEY_TODOS /\ prefix = <<"todos">>
    \/ k = CACHE_KEY_POSTS /\ prefix \in {<<"posts">>, <<"posts", "{pageSize:10}">>}

\* C15: invalidate(prefix) marks stale every entry whose key starts with the
\* prefix and a refetch is under way for each of them that has an active
\* observer: invalidate(["posts"]) with a subscriber on ["posts", {pageSize}]
\* refetches that child key; entries of other keys are untouched.
C15_InvalidateByPrefix ==
    [][\A prefix \in Prefixes :
          InvalidateStep(prefix) =>
             \A k \in Keys :
                IF StartsWith(k, prefix) /\ queryStatus[k] # "idle"
                THEN /\ isInvalidated'[k]
                     /\ observerCount[k] > 0 =>
                           /\ \E f \in fetches' : f.key = k
                           /\ (\A f \in fetches : f.key # k) =>
                                  fetchStarts'[k] = fetchStarts[k] + 1
                ELSE /\ cache'[k] = cache[k]
                     /\ dataUpdatedAt'[k] = dataUpdatedAt[k]
                     /\ queryStatus'[k] = queryStatus[k]
                     /\ isInvalidated'[k] = isInvalidated[k]
                     /\ fetchStarts'[k] = fetchStarts[k]
                     /\ {f \in fetches' : f.key = k} = {f \in fetches : f.key = k}]_vars

\* invalidate(["posts"]) has started the refetch of the observed child key
\* and has left the entry of ["todos"] as it was
C15_Witness ==
    /\ <<"posts">> \in invalidateCalls
    /\ <<"todos">> \notin invalidateCalls
    /\ isInvalidated[CACHE_KEY_POSTS]
    /\ observerCount[CACHE_KEY_POSTS] = 1
    /\ fetchWrites[CACHE_KEY_POSTS] = 1
    /\ fetchStarts[CACHE_KEY_POSTS] = 2
    /\ \E f \in fetches : f.key = CACHE_KEY_POSTS
    /\ cache[CACHE_KEY_TODOS].kind # "undefined"
    /\ ~isInvalidated[CACHE_KEY_TODOS]
    /\ fetchStarts[CACHE_KEY_TODOS] = 1
    /\ queryStatus[CACHE_KEY_TODOS] = "success"

\* the list with the element of identity obj replaced by savedTodo
Reconciled(list, obj, savedTodo) ==
    [i \in 1..Len(list) |-> IF list[i].obj = obj THEN savedTodo ELSE list[i]]

\* the step in which the fetch f ends
FetchEndStep(f) == f \in fetches /\ f \notin fetches'

\* the step in which onError of mutation m ends
ErrorStep(m) == muts[m].pc = "onError" /\ muts'[m].pc = "settle"

\* C16: a response that arrives after every observer of the key has gone, or
\* after the component that called mutate has unmounted, is applied as any
\* other: the fetch result is written to the cache, onSuccess replaces the
\* speculative todo in the list by the saved one and onError writes the
\* snapshot back.
C16_LateResponsesApplied ==
    /\ [][\A f \in fetches :
             (FetchEndStep(f) /\ observerCount[f.key] = 0) =>
                /\ fetchWrites'[f.key] = fetchWrites[f.key] + 1
                /\ cache'[f.key].kind # "undefined"
                /\ queryStatus'[f.key] = "success"
                /\ dataUpdatedAt'[f.key] = now]_vars
    /\ [][\A m \in Mutations :
             (SuccessStep(m) /\ muts[m].abandoned /\ cache[CACHE_KEY_TODOS].kind = "array") =>
                cache'[CACHE_KEY_TODOS] =
                   ArrayOf(Reconciled(cache[CACHE_KEY_TODOS].items,
                                      muts[m].variables.obj, muts'[m].savedTodo))]_vars
    /\ [][\A m \in Mutations :
             (ErrorStep(m) /\ muts[m].abandoned /\ muts[m].hasContext) =>
                /\ cache'[CACHE_KEY_TODOS] = ArrayOf(muts[m].prvsTodos)
                /\ muts'[m].rollbacks = 1]_vars

\* the form went away during the remote writes: one mutation was reconciled
\* and another one was rolled back after that
C16_Witness ==
    \E m1, m2 \in Mutations :
        /\ ~formMounted
        /\ muts[m1].abandoned
        /\ muts[m1].onSuccessCalls = 1
        /\ muts[m1].error = "none"
        /\ muts[m2].abandoned
        /\ muts[m2].error = "NetworkError"
        /\ muts[m2].rollbacks = 1
        /\ muts[m1].pc = "done"
        /\ muts[m2].pc = "done"
        /\ cache[CACHE_KEY_TODOS].kind = "array"

\* the list without the tasks whose id is taskId, the others in their order
RECURSIVE WithoutId(_, _)
WithoutId(list, taskId) ==
    IF list = <<>> THEN <<>>
    ELSE IF Head(list).id = taskId THEN WithoutId(Tail(list), taskId)
    ELSE <<Head(list)>> \o WithoutId(Tail(list), taskId)

\* C17: taskReducer: ADD returns the list with action.task prepended and the
\* previous tasks in their order; DELETE returns the list without every task
\* whose id is action.taskId, the rest in their order; any other action
\* returns the list unchanged.
C17_TaskReducer ==
    /\ lastTaskAction.type = "ADD" =>
          (/\ Len(tasks) = Len(prevTasks) + 1
           /\ tasks[1] = lastTaskAction.task
           /\ \A i \in 1..Len(prevTasks) : tasks[i + 1] = prevTasks[i])
    /\ lastTaskAction.type = "DELETE" =>
          (/\ tasks = WithoutId(prevTasks, lastTaskAction.taskId)
           /\ \A i \in 1..Len(tasks) : tasks[i].id # lastTaskAction.taskId)
    /\ lastTaskAction.type \notin {"ADD", "DELETE"} => tasks = prevTasks

\* a DELETE removed two tasks of the same id and kept the third in place
C17_Witness ==
    /\ lastTaskAction.type = "DELETE"
    /\ Len(prevTasks) = 3
    /\ prevTasks[1].id = lastTaskAction.taskId
    /\ prevTasks[2].id # lastTaskAction.taskId
    /\ prevTasks[3].id = lastTaskAction.taskId
    /\ tasks = <<prevTasks[2]>>

\* C18: counterReducer: INCREMENT returns state + 1, RESET returns 0 and any
\* other action type returns the state unchanged, so after any sequence of
\* actions from 0 the counter equals the number of INCREMENT actions since
\* the last RESET.
C18_CounterReducer ==
    /\ [][value' = IF lastAction' = "INCREMENT" THEN value + 1
                   ELSE IF lastAction' = "RESET" THEN 0
                   ELSE value]_counterVars
    /\ [](value = sinceReset)

\* increments, a reset, an action of another type, then increments again
C18_Witness ==
    /\ value = 2
    /\ sinceReset = 2
    /\ lastAction = "OTHER"

LoadMoreStep == clicks' = clicks + 1

\* C20: infinite paging of posts stops at the end of the list: while the last
\* loaded page is non-empty fetchNextPage requests page allPages.length + 1,
\* once the last loaded page is empty it requests nothing, and no page is
\* requested after an empty page has been loaded.
C20_PagingStops ==
    /\ [][LoadMoreStep =>
             IF Len(pages[Len(pages)]) > 0
             THEN /\ pageFetch' = Len(pages) + 1
                  /\ requested' = Append(requested, Len(pages) + 1)
             ELSE /\ pageFetch' = 0
                  /\ requested' = requested]_vars
    /\ [](\A i \in 1..Len(pages) :
             pages[i] = <<>> =>
                /\ i = Len(pages)
                /\ pageFetch = 0
                /\ Len(requested) = Len(pages))
    /\ [](\A i \in 1..Len(requested) : requested[i] = i)

\* two full or partial pages and the empty page are loaded, and Load More
\* was clicked again after that
C20_Witness ==
    /\ Len(pages) = 3
    /\ Len(pages[1]) = 10
    /\ Len(pages[2]) > 0
    /\ pages[3] = <<>>
    /\ clicks = 4
    /\ requested = <<1, 2, 3>>
    /\ pageFetch = 0

\* a visitor's step that leads to /users or to /users/:id
PrivateNavigationStep ==
    /\ navigations' = navigations + 1
    /\ Len(history'[Len(history')]) >= 1
    /\ history'[Len(history')][1] = "users"
    /\ Len(history'[Len(history')]) <= 2

\* C21: /users and /users/:id are private: while useAuth().user is falsy no
\* navigation to them renders UsersPage or UserDetail, the visitor is
\* redirected to /login instead, and / and /login show their pages.
C21_PrivateRoutes ==
    /\ [](Falsy(routeUser) => ~IsRendered("UsersPage") /\ ~IsRendered("UserDetail"))
    /\ [][(Falsy(routeUser) /\ PrivateNavigationStep) =>
             rendered' = <<"PrivateRoutes", "Navigate">>]_vars
    /\ [][IsRendered("Navigate") =>
             /\ history'[Len(history')] = LoginPath
             /\ rendered' = <<"Layout", "LoginPage">>]_vars
    /\ [](Location = HomePath => rendered = <<"Layout", "HomePage">>)
    /\ [](Location = LoginPath => rendered = <<"Layout", "LoginPage">>)

\* a visitor without a user asked for /users/1 and has landed on /login
C21_Witness ==
    /\ Falsy(routeUser)
    /\ Len(history) >= 3
    /\ history[Len(history) - 1] = <<"users", "1">>
    /\ Location = LoginPath
    /\ IsRendered("LoginPage")

\* every mutation started so far has run onSuccess or onError
AllSettled ==
    /\ nextMutation > 1
    /\ \A m \in Mutations : m < nextMutation => muts[m].pc \in {"settle", "done"}

\* the remote write of mutation m succeeded and onSuccess ran to its end
Succeeded(m) == muts[m].onSuccessCalls = 1 /\ muts[m].error = "none"

InTodos(todo) ==
    /\ Todos.kind = "array"
    /\ \E i \in 1..Len(Todos.items) : Todos.items[i] = todo

\* C22: in every interleaving of overlapping addTodo mutations, each mutation
\* that succeeds has its server-returned todo in ["todos"] once all mutations
\* have settled (no fetch having written the entry since the first began),
\* also when another mutation failed and rolled back in between.
C22_SucceededTodoKept ==
    (AllSettled /\ fetchWrites[CACHE_KEY_TODOS] = baseline.fetchWrites) =>
        \A m \in Mutations : Succeeded(m) => InTodos(muts[m].savedTodo)

\* onError of m restores its snapshot after a fetch has written ["todos"]
\* since that snapshot was taken
FresherFetchStep(m) ==
    /\ RollbackStep(m)
    /\ muts[m].hasContext
    /\ fetchWrites[CACHE_KEY_TODOS] > muts[m].writesSeen

\* C23 as stated: a rollback never discards fresher server data: if a fetch
\* wrote ["todos"] after the snapshot and before the failure, the cache
\* still holds what that fetch wrote after onError.
C23_RollbackKeepsFresherFetch ==
    [][\A m \in Mutations :
          (FresherFetchStep(m) /\ Todos = QueryFnResult(CACHE_KEY_TODOS)) =>
              cache'[CACHE_KEY_TODOS] = QueryFnResult(CACHE_KEY_TODOS)]_vars

\* C23 as amended: the rollback is the last write and wins: after onError the
\* cache holds the snapshot of the failed mutation, also when a fetch wrote
\* ["todos"] after the snapshot was taken.
C23_RollbackOverwritesFetch ==
    [][\A m \in Mutations :
          FresherFetchStep(m) =>
              cache'[CACHE_KEY_TODOS] = ArrayOf(muts[m].prvsTodos)]_vars

\* a mutation has rolled back over the result of a later fetch
C23_Witness ==
    \E m \in Mutations :
        /\ muts[m].pc = "settle"
        /\ muts[m].rollbacks = 1
        /\ muts[m].error = "NetworkError"
        /\ fetchWrites[CACHE_KEY_TODOS] > muts[m].writesSeen
        /\ Todos = ArrayOf(muts[m].prvsTodos)

\* onError of a mutation whose onAdd callback threw in onMutate
OnAddErrorStep(m) ==
    /\ muts[m].pc = "onError"
    /\ muts[m].error = "OnAddError"
    /\ muts'[m].pc = "settle"

\* C24: if onAdd throws inside onMutate, after the speculative write, the
\* mutation fails without dispatching the remote write and ["todos"] is
\* restored to its pre-mutation value (an entry without data counting as the
\* empty list).
C24_OnAddThrowRestores ==
    [][\A m \in Mutations :
          (OnAddErrorStep(m) /\ ~muts[m].overlapped) =>
              /\ muts'[m].posts = 0
              /\ cache'[CACHE_KEY_TODOS] = OrEmptyArray(muts[m].before)]_vars

\* the state outside the three reducers
OutsideReducers ==
    <<entryVars, fetchVars, clockVars, mutationVars, observerVars, storeVars,
      pagingVars, routeVars, authStore, loginStatus>>

\* C25: the reducers are pure: a call of taskReducer, counterReducer or
\* AuthReducer leaves the state passed to it as it was (the task list passed
\* in is not modified), changes nothing outside the state it returns, and
\* its result is determined by the state and the action alone.
C25_ReducersPure ==
    [][/\ taskVars' # taskVars =>
             /\ passedTasks' = tasks
             /\ tasks' = taskReducer(tasks, lastTaskAction')
             /\ UNCHANGED <<counterVars, user, lastAuthAction, OutsideReducers>>
       /\ counterVars' # counterVars =>
             /\ value' = counterReducer(value, [type |-> lastAction'])
             /\ UNCHANGED <<taskVars, user, lastAuthAction, OutsideReducers>>
       /\ <<user, lastAuthAction>>' # <<user, lastAuthAction>> =>
             /\ user' = AuthReducer(user, lastAuthAction')
             /\ UNCHANGED <<taskVars, counterVars, OutsideReducers>>]_vars

\* each reducer has been called, taskReducer last and with an ADD
C25_Witness ==
    /\ lastTaskAction.type = "ADD"
    /\ passedTasks # <<>>
    /\ Len(tasks) = Len(passedTasks) + 1
    /\ value > 0
    /\ user # ""

AddAction(t) == [type |-> "ADD", task |-> t, taskId |-> 0]
DeleteAction(i) == [type |-> "DELETE", task |-> NoTask, taskId |-> i]

\* ADD(t) followed by DELETE(t.id)
AddThenDelete(list, t) ==
    taskReducer(taskReducer(list, AddAction(t)), DeleteAction(t.id))

HasId(list, i) == \E n \in 1..Len(list) : list[n].id = i

\* C26 as stated: for every reachable task list and every task t, ADD(t)
\* followed by DELETE(t.id) yields the list that existed before the ADD.
C26_AddDeleteRoundTrip ==
    \A t \in TaskValues : AddThenDelete(tasks, t) = tasks

\* C26 as amended: the round trip holds for every task t whose id is not the
\* id of a task already in the list.
C26_AddDeleteRoundTripFreshId ==
    \A t \in TaskValues : ~HasId(tasks, t.id) => AddThenDelete(tasks, t) = tasks

\* a task with a new id was added to a non-empty list and deleted again
C26_Witness ==
    /\ lastTaskAction.type = "DELETE"
    /\ prevTasks # <<>>
    /\ prevTasks[1].id = lastTaskAction.taskId
    /\ tasks # <<>>
    /\ ~HasId(tasks, lastTaskAction.taskId)
    /\ tasks = Tail(prevTasks)

LogoutAction == [type |-> "LOGOUT", user |-> ""]

\* the step in which the Logout link of LoginStatus is clicked
LogoutStep == loginStatus = "Logout" /\ loginStatus' = "Login"

\* C27: after any sequence of LOGIN and LOGOUT actions from the empty user,
\* the auth state is the user of the last action if that was a LOGIN and the
\* empty string otherwise; LOGOUT is idempotent; LoginStatus shows the Logout
\* link exactly when the state it reads is a non-empty string.
C27_AuthState ==
    /\ [](lastAuthAction.type = "LOGIN" => user = lastAuthAction.user)
    /\ [](lastAuthAction.type # "LOGIN" => user = "")
    /\ [](AuthReducer(AuthReducer(user, LogoutAction), LogoutAction)
             = AuthReducer(user, LogoutAction))
    /\ [][lastAuthAction'.type = "LOGOUT" => user' = ""]_vars
    /\ [](loginStatus = "Logout" <=> authStore.user # "")
    /\ [][LogoutStep => authStore'.user = ""]_vars

\* a LOGIN was the last action of the reducer, and the store holds a user
C27_Witness ==
    /\ lastAuthAction.type = "LOGIN"
    /\ user = "john"
    /\ authStore.user = "mosh.hamedani"
    /\ loginStatus = "Logout"

RECURSIVE Flatten(_)
Flatten(pp) == IF pp = <<>> THEN <<>> ELSE Head(pp) \o Flatten(Tail(pp))

\* C28: the k-th page of the posts query is requested with
\* _start = (k - 1) * pageSize and _limit = pageSize, so the loaded windows
\* are contiguous, never overlap and never skip a record, and a next page is
\* requested only while no page request is in flight.
C28_PagingWindows ==
    /\ [](\A k \in 1..Len(requested) :
             RequestParams(requested[k], PageSize) =
                 [_start |-> (k - 1) * PageSize, _limit |-> PageSize])
    /\ [](Flatten(pages) = Range(1, Len(Flatten(pages))))
    /\ [](\A k \in 1..Len(pages) :
             pages[k] = Range((k - 1) * PageSize + 1, Min(k * PageSize, serverPosts)))
    /\ [][Len(requested') > Len(requested) => pageFetch = 0]_vars

\* three windows are loaded, the last one short
C28_Witness ==
    /\ Len(pages) = 3
    /\ Len(pages[2]) = PageSize
    /\ pages[3] # <<>>
    /\ Len(pages[3]) < PageSize
    /\ pageFetch = 0

\* C29: the task state, the auth state and the counter store are
\* independent: a task action never changes the user or the counter,
\* LOGIN/LOGOUT (login/logout) never change the task list or the counter,
\* and increament/reset never change the task list or the user.
C29_StatesIndependent ==
    [][/\ taskVars' # taskVars =>
             UNCHANGED <<user, authStore, loginStatus, store, shown>>
       /\ authVars' # authVars =>
             UNCHANGED <<tasks, store, shown>>
       /\ storeCalls' # storeCalls =>
             UNCHANGED <<tasks, user, authStore, loginStatus>>]_vars

\* tasks, both users and the counter all hold something
C29_Witness ==
    /\ tasks # <<>>
    /\ user # ""
    /\ authStore.user # ""
    /\ store.counter > 0
    /\ lastTaskAction.type = "DELETE"
    /\ lastAuthAction.type = "LOGIN"

\* C30: the duplicated reducers agree: the taskReducer of
\* tasks/TaskProvider.tsx returns the same list as the one of
\* reducers/tasksReducer.ts for every (tasks, action), and the AuthReducer of
\* the auth provider module returns the same user as the one of
\* reducers/logInReducer.ts for every (state, action).
C30_DuplicatedReducersAgree ==
    /\ \A action \in TaskActions :
          TaskProvider_taskReducer(tasks, action) = taskReducer(tasks, action)
    /\ \A action \in AuthActions :
          AuthProvider_AuthReducer(user, action) = AuthReducer(user, action)

\* a list of two tasks left by a DELETE, which the copy computes as well,
\* and a user logged in
C30_Witness ==
    /\ Len(tasks) = 2
    /\ lastTaskAction.type = "DELETE"
    /\ Len(prevTasks) = 3
    /\ TaskProvider_taskReducer(prevTasks, lastTaskAction) = tasks
    /\ lastAuthAction.type = "LOGIN"
    /\ AuthProvider_AuthReducer("", lastAuthAction) = user
    /\ user # ""

====
